---- MODULE Spec2Model ----
(***************************************************************************)
(* Chunking and multi-stage summarization of a podcast transcription.      *)
(*                                                                         *)
(*   PodcastTranscriber._create_time_chunks   (transcriber.py)             *)
(*   PodcastSummarizer.summarize              (summarizer.py)              *)
(*   PodcastSummarizer.summarize_chunks       (summarizer.py)              *)
(*   AudioDownloader.download_by_search       (audio_downloader.py)        *)
(*   AudioDownloader.download_from_url        (audio_downloader.py)        *)
(*   process                                  (cli.py)                     *)
(*                                                                         *)
(* A text is a sequence of tokens.  A token is either one whitespace       *)
(* character or a maximal piece of a word; str.split() therefore counts    *)
(* the maximal runs of non-whitespace tokens and str.strip() removes the   *)
(* whitespace tokens at both ends.  Times are whole seconds.               *)
(***************************************************************************)
EXTENDS Integers, Sequences, FiniteSets, TLC

VARIABLES
    \* _create_time_chunks
    segments,         \* the argument: sequence of [start, end, text]
    chunk_duration,   \* the argument
    idx,              \* position of the for loop (1-based index of the next segment)
    current_chunk,    \* the running chunk
    chunks,           \* the output list
    pc,               \* "loop" | "done" (returned) | "ZeroDivisionError" | "idle"
    members,          \* history: indices of the segments folded into current_chunk
    chunk_members,    \* history: for every emitted chunk, the indices of its segments
    \* summarize_chunks
    in_chunks,            \* the argument `chunks`
    chunk_summary_type,   \* the argument
    final_summary_type,   \* the argument
    i,                    \* enumerate index of the per-chunk loop (0-based)
    chunk_summaries,      \* the list built by the loop
    s_pc,                 \* "chunks" | "final" | "returned" | "raised" | "idle"
    result,               \* the returned dictionary, NoResult until a return
    raised,               \* the message of the exception that left the function
    calls,                \* history: the calls made to self.summarize, in order
    \* AudioDownloader.download_by_search / download_from_url
    d_method,         \* "search" | "url" | "idle"
    title,            \* the argument (download_by_search), a sequence of words
    auto_confirm,     \* self.auto_confirm
    all_queries,      \* [original_query] + fallback_queries
    qi,               \* enumerate index of the query loop (0-based)
    video_info,       \* the entry found, NoVideo before
    d_pc,             \* "search" | "info" | "confirm" | "download" | "returned" | "raised" | "idle"
    d_error,          \* the message of the RuntimeError that left the method
    tried,            \* history: the searches made, in order, with their outcome
    prompted,         \* history: the answers given to click.confirm
    download_calls,   \* history: the arguments of the download calls
    \* cli.process
    api_key_set,      \* os.getenv("GEMINI_API_KEY")
    keep_audio,       \* --keep-audio
    keep_transcript,  \* --keep-transcript
    p_pc,             \* the step about to run, "exit" once the command has ended
    exit_status,      \* NoStatus until the command ends
    audio_file,       \* "absent" | "present" | "deleted"
    transcript_file,  \* "absent" | "partial" | "written"
    summary_file,     \* "absent" | "partial" | "written"
    steps             \* history: the steps run, in order, with their outcome

builder_vars == <<segments, chunk_duration, idx, current_chunk, chunks, pc,
                  members, chunk_members>>
summarizer_vars == <<in_chunks, chunk_summary_type, final_summary_type, i,
                     chunk_summaries, s_pc, result, raised, calls>>
downloader_vars == <<d_method, title, auto_confirm, all_queries, qi, video_info,
                     d_pc, d_error, tried, prompted, download_calls>>
process_vars == <<api_key_set, keep_audio, keep_transcript, p_pc, exit_status,
                  audio_file, transcript_file, summary_file, steps>>
vars == <<builder_vars, summarizer_vars, downloader_vars, process_vars>>

(***************************************************************************)
(* Bounds of the model.                                                    *)
(***************************************************************************)
MaxSegs == 3        \* longest segment list
MaxTime == 5        \* latest segment end, in seconds
MaxSegLen == 2      \* longest segment, in seconds
MaxDuration == 2    \* largest chunk_duration of the enumerated inputs
MaxChunks == 2      \* longest chunk list handed to summarize_chunks

(***************************************************************************)
(* Texts.                                                                  *)
(***************************************************************************)
Whitespace == {" ", "\n", "\t"}

IsWs(tok) == tok \in Whitespace

RECURSIVE LStrip(_)
LStrip(t) == IF t # <<>> /\ IsWs(Head(t)) THEN LStrip(Tail(t)) ELSE t

RECURSIVE RStrip(_)
RStrip(t) ==
    IF t # <<>> /\ IsWs(t[Len(t)]) THEN RStrip(SubSeq(t, 1, Len(t) - 1)) ELSE t

\* str.strip()
Strip(t) == RStrip(LStrip(t))

\* len(str.split()): the number of maximal runs of non-whitespace tokens
WordCount(t) ==
    Cardinality({j \in 1..Len(t) : ~IsWs(t[j]) /\ (j = 1 \/ IsWs(t[j - 1]))})

\* the non-whitespace tokens of a text, in order
NonWs(t) == SelectSeq(t, LAMBDA tok : ~IsWs(tok))

RECURSIVE Flatten(_)
Flatten(ts) == IF ts = <<>> THEN <<>> ELSE Head(ts) \o Flatten(Tail(ts))

(***************************************************************************)
(* _create_time_chunks                                                     *)
(***************************************************************************)
\* current_chunk = {"start_time": 0, "end_time": chunk_duration, "text": "", ...}
InitialChunk(d) ==
    [start_time |-> 0, end_time |-> d, text |-> <<>>, segment_count |-> 0]

StartsNewChunk_Nominal(seg, cur) == seg.start >= cur.start_time + chunk_duration

\* if segment_start >= current_chunk["end_time"]
StartsNewChunk(seg, cur) == seg.start >= cur.end_time

ChunkStart_Mod(segment_start, d) == segment_start % d

ChunkStart_NoFloor(segment_start, d) == segment_start

ChunkStart_NextWindow(segment_start, d) == ((segment_start \div d) + 1) * d

ChunkStart_PrevWindow(segment_start, d) == ((segment_start \div d) - 1) * d

\* a // b of Python for b # 0: the floor of the quotient, whatever the signs
FloorDiv(a, b) == IF b > 0 THEN a \div b ELSE (0 - a) \div (0 - b)

\* chunk_start = (segment_start // chunk_duration) * chunk_duration
ChunkStart(segment_start, d) == FloorDiv(segment_start, d) * d

\* the chunk opened by a segment
NewChunkFor(seg, d) ==
    [start_time |-> ChunkStart(seg.start, d),
     end_time |-> ChunkStart(seg.start, d) + d,
     text |-> seg.text,
     segment_count |-> 1]

Max(a, b) == IF a >= b THEN a ELSE b

AddSegment_Overwrite(cur, seg) ==
    [cur EXCEPT !.text = seg.text,
                !.segment_count = @ + 1,
                !.end_time = Max(@, seg.end)]

AddSegment_NoMax(cur, seg) ==
    [cur EXCEPT !.text = @ \o <<" ">> \o seg.text,
                !.segment_count = @ + 1,
                !.end_time = seg.end]

\* the else branch: the segment is folded into the running chunk
AddSegment(cur, seg) ==
    [cur EXCEPT !.text = @ \o <<" ">> \o seg.text,
                !.segment_count = @ + 1,
                !.end_time = Max(@, seg.end)]

EmitIfText_NoStrip(chks, cur) ==
    IF cur.text # <<>> THEN Append(chks, cur) ELSE chks

EmitIfText_Always(chks, cur) == Append(chks, cur)

EmitIfText_Replace(chks, cur) ==
    IF Strip(cur.text) = <<>> THEN chks
    ELSE IF chks = <<>> THEN <<cur>>
    ELSE [chks EXCEPT ![Len(chks)] = cur]

\* if current_chunk["text"].strip(): chunks.append(current_chunk)
EmitIfText(chks, cur) ==
    IF Strip(cur.text) # <<>> THEN Append(chks, cur) ELSE chks

\* Inputs ------------------------------------------------------------------
Word(k) == <<"a", "b", "c", "d", "e", "f">>[k]

\* the text of the k-th segment (transcribe strips every segment's text):
\* empty when nothing was recognised, or one word of its own
SegText(k, spoken) == IF spoken THEN <<Word(k)>> ELSE <<>>

\* start < end, at most MaxSegLen seconds long
SegShapes ==
    {sh \in [start : 0..MaxTime, end : 0..MaxTime, spoken : BOOLEAN] :
        sh.start < sh.end /\ sh.end - sh.start <= MaxSegLen}

\* time-ordered: starts non-decreasing
TimeOrdered(l) == \A k \in 1..(Len(l) - 1) : l[k].start <= l[k + 1].start

Seg(s, e, t) == [start |-> s, end |-> e, text |-> t]

\* chunk_duration: int = 300
DefaultChunkDuration == 300

SingleWindowSegs == <<Seg(0, 10, <<"a">>), Seg(20, 30, <<"b">>)>>
RolloverSegs == <<Seg(0, 10, <<"a">>), Seg(305, 310, <<"b">>)>>
WideningSegs == <<Seg(0, 10, <<"a">>), Seg(290, 320, <<"b">>)>>

Durations == 1..MaxDuration

ExampleInputs == {SingleWindowSegs, RolloverSegs, WideningSegs}

\* a time-ordered list of at most MaxSegs segments
TranscribedSegments(segs) ==
    \E n \in 0..MaxSegs : \E f \in [1..n -> SegShapes] :
        /\ TimeOrdered(f)
        /\ segs = [k \in 1..n |->
                     Seg(f[k].start, f[k].end, SegText(k, f[k].spoken))]

\* the arguments of one call of _create_time_chunks
BuilderInput(segs, d) ==
    \/ /\ d \in Durations
       /\ TranscribedSegments(segs)
    \/ /\ d = DefaultChunkDuration
       /\ segs \in ExampleInputs

NoResult == [none |-> TRUE]

NoVideo == [none |-> TRUE]

NoStatus == -1

DownloaderIdle ==
    /\ d_method = "idle"
    /\ title = <<>>
    /\ auto_confirm = FALSE
    /\ all_queries = <<>>
    /\ qi = 0
    /\ video_info = NoVideo
    /\ d_pc = "idle"
    /\ d_error = ""
    /\ tried = <<>>
    /\ prompted = <<>>
    /\ download_calls = <<>>

ProcessIdle ==
    /\ api_key_set = TRUE
    /\ keep_audio = FALSE
    /\ keep_transcript = FALSE
    /\ p_pc = "idle"
    /\ exit_status = NoStatus
    /\ audio_file = "absent"
    /\ transcript_file = "absent"
    /\ summary_file = "absent"
    /\ steps = <<>>

SummarizerIdle ==
    /\ in_chunks = <<>>
    /\ chunk_summary_type = "brief"
    /\ final_summary_type = "comprehensive"
    /\ i = 0
    /\ chunk_summaries = <<>>
    /\ s_pc = "idle"
    /\ result = NoResult
    /\ raised = <<>>
    /\ calls = <<>>

Init ==
    /\ chunk_duration \in Durations \cup {DefaultChunkDuration}
    /\ BuilderInput(segments, chunk_duration)
    /\ current_chunk = InitialChunk(chunk_duration)
    /\ chunks = <<>>
    /\ idx = 1
    /\ pc = "loop"
    /\ members = {}
    /\ chunk_members = <<>>
    /\ SummarizerIdle
    /\ DownloaderIdle
    /\ ProcessIdle

\* history: the member set of a chunk is recorded when the chunk is emitted
EmitMembers(emitted) ==
    IF Len(emitted) > Len(chunks) THEN Append(chunk_members, members)
    ELSE chunk_members

\* one iteration of the loop, if branch
NewChunk ==
    /\ pc = "loop"
    /\ idx <= Len(segments)
    /\ StartsNewChunk(segments[idx], current_chunk)
    /\ chunk_duration # 0
    /\ chunks' = EmitIfText(chunks, current_chunk)
    /\ chunk_members' = EmitMembers(chunks')
    /\ current_chunk' = NewChunkFor(segments[idx], chunk_duration)
    /\ members' = {idx}
    /\ idx' = idx + 1
    /\ UNCHANGED <<segments, chunk_duration, pc, summarizer_vars,
                   downloader_vars, process_vars>>

\* one iteration of the loop, else branch
AddToChunk ==
    /\ pc = "loop"
    /\ idx <= Len(segments)
    /\ ~StartsNewChunk(segments[idx], current_chunk)
    /\ current_chunk' = AddSegment(current_chunk, segments[idx])
    /\ members' = members \cup {idx}
    /\ idx' = idx + 1
    /\ UNCHANGED <<segments, chunk_duration, chunks, chunk_members, pc,
                   summarizer_vars,
                   downloader_vars, process_vars>>

\* after the loop: add the final chunk and return
Finish ==
    /\ pc = "loop"
    /\ idx > Len(segments)
    /\ chunks' = EmitIfText(chunks, current_chunk)
    /\ chunk_members' = EmitMembers(chunks')
    /\ pc' = "done"
    /\ UNCHANGED <<segments, chunk_duration, idx, current_chunk, members,
                   summarizer_vars,
                   downloader_vars, process_vars>>

Next == NewChunk \/ AddToChunk \/ Finish

Spec == Init /\ [][Next]_vars

(***************************************************************************)
(* _create_time_chunks with a chunk_duration that nothing has validated:   *)
(* the --chunk-duration option of the command line is any integer.         *)
(***************************************************************************)
\* zero, the negative durations, and the smallest positive one
AnyDurations == (0 - MaxDuration)..1

InitAnyDuration ==
    /\ chunk_duration \in AnyDurations
    /\ TranscribedSegments(segments)
    /\ current_chunk = InitialChunk(chunk_duration)
    /\ chunks = <<>>
    /\ idx = 1
    /\ pc = "loop"
    /\ members = {}
    /\ chunk_members = <<>>
    /\ SummarizerIdle
    /\ DownloaderIdle
    /\ ProcessIdle

NewChunkDivisionByZero_ReturnsEmpty ==
    /\ pc = "loop"
    /\ idx <= Len(segments)
    /\ StartsNewChunk(segments[idx], current_chunk)
    /\ chunk_duration = 0
    /\ pc' = "done"
    /\ UNCHANGED <<segments, chunk_duration, idx, current_chunk, chunks,
                   members, chunk_members, summarizer_vars,
                   downloader_vars, process_vars>>

\* one iteration of the loop, if branch: segment_start // 0 raises after the
\* running chunk was closed, and nothing in the function catches it
NewChunkDivisionByZero ==
    /\ pc = "loop"
    /\ idx <= Len(segments)
    /\ StartsNewChunk(segments[idx], current_chunk)
    /\ chunk_duration = 0
    /\ chunks' = EmitIfText(chunks, current_chunk)
    /\ chunk_members' = EmitMembers(chunks')
    /\ pc' = "ZeroDivisionError"
    /\ UNCHANGED <<segments, chunk_duration, idx, current_chunk, members,
                   summarizer_vars,
                   downloader_vars, process_vars>>

NextAnyDuration == NewChunk \/ NewChunkDivisionByZero \/ AddToChunk \/ Finish

SpecAnyDuration == InitAnyDuration /\ [][NextAnyDuration]_vars

(***************************************************************************)
(* Properties of _create_time_chunks, checked under Spec.                  *)
(***************************************************************************)
Returned == pc = "done"

ChunkTexts == [k \in 1..Len(chunks) |-> chunks[k].text]
SegmentTexts == [k \in 1..Len(segments) |-> segments[k].text]
Tokens(t) == {t[j] : j \in 1..Len(t)}

\* C1: for every returned chunk and every segment folded into it (the one
\* that opened it and the ones appended to it), end_time >= segment.end.
C1_EndTimeCoversFoldedSegments ==
    Returned =>
        \A k \in 1..Len(chunks) : \A m \in chunk_members[k] :
            chunks[k].end_time >= segments[m].end

\* C4: the words of the segments appear, in input order, in the texts of the
\* returned chunks, nothing dropped and nothing duplicated; a segment with
\* non-blank text is in the text of exactly one chunk.
C4_Coverage ==
    Returned =>
        /\ NonWs(Flatten(ChunkTexts)) = NonWs(Flatten(SegmentTexts))
        /\ \A m \in 1..Len(segments) :
              Strip(segments[m].text) # <<>> =>
                  Cardinality({k \in 1..Len(chunks) :
                      Tokens(segments[m].text) \subseteq Tokens(chunks[k].text)}) = 1

C4_Witness ==
    /\ Returned
    /\ Len(chunks) >= 2
    /\ \E k \in 1..Len(chunks) : WordCount(chunks[k].text) >= 2

\* C5: no emitted chunk has empty or whitespace-only text (a running chunk
\* that is blank when it is closed is dropped).
C5_NoBlankChunk ==
    \A k \in 1..Len(chunks) : Strip(chunks[k].text) # <<>>

\* the initial chunk and a chunk of text-less segments were closed blank
C5_Witness ==
    /\ Returned
    /\ Len(segments) = MaxSegs
    /\ segments[1].start >= chunk_duration
    /\ segments[1].text = <<>>
    /\ StartsNewChunk(segments[2], NewChunkFor(segments[1], chunk_duration))
    /\ Len(chunks) = 1

\* C7: start_time is non-decreasing across the returned chunks.
C7_StartTimeNonDecreasing ==
    \A k \in 1..(Len(chunks) - 1) :
        chunks[k].start_time <= chunks[k + 1].start_time

\* three chunks, the last one after a gap in speech
C7_Witness ==
    /\ Returned
    /\ Len(chunks) >= 3
    /\ chunks[3].start_time > chunks[2].end_time

Chunk(s, e, t, n) ==
    [start_time |-> s, end_time |-> e, text |-> t, segment_count |-> n]

\* C8: single-window example: [{0,10,"a"},{20,30,"b"}] with chunk_duration 300
\* gives exactly one chunk {0, 300, "a b", 2}.
C8_SingleWindowExample ==
    (Returned /\ segments = SingleWindowSegs /\ chunk_duration = DefaultChunkDuration)
        => chunks = <<Chunk(0, 300, <<"a", " ", "b">>, 2)>>

\* C9: window-rollover example: [{0,10,"a"},{305,310,"b"}] with chunk_duration
\* 300 gives exactly {0, 300, "a", 1} followed by {300, 600, "b", 1}.
C9_RolloverExample ==
    (Returned /\ segments = RolloverSegs /\ chunk_duration = DefaultChunkDuration)
        => chunks = <<Chunk(0, 300, <<"a">>, 1), Chunk(300, 600, <<"b">>, 1)>>

\* C10: boundary-widening example: [{0,10,"a"},{290,320,"b"}] with
\* chunk_duration 300 gives exactly one chunk {0, 320, "a b", 2}.
C10_WideningExample ==
    (Returned /\ segments = WideningSegs /\ chunk_duration = DefaultChunkDuration)
        => chunks = <<Chunk(0, 320, <<"a", " ", "b">>, 2)>>

(***************************************************************************)
(* PodcastSummarizer.summarize                                             *)
(***************************************************************************)
\* if len(text.split()) < 50
MinWords == 50

\* max_length=200 in the per-chunk call
ChunkMaxLength == 200

\* max_length: Optional[int] = None; None and 0 are the same to `if max_length:`
NoMaxLength == 0

ValidTypes == {"brief", "comprehensive", "bullet_points"}

\* sep.join(ts)
RECURSIVE Join(_, _)
Join(ts, sep) ==
    IF ts = <<>> THEN <<>>
    ELSE IF Len(ts) = 1 THEN Head(ts)
    ELSE Head(ts) \o sep \o Join(Tail(ts), sep)

\* the text made of the given words, single spaces between them
Sentence(ws) == Join([k \in 1..Len(ws) |-> <<ws[k]>>], <<" ">>)

ErrTooShort ==
    Sentence(<<"Text", "too", "short", "for", "meaningful", "summarization",
               "(minimum", "50", "words)">>)

ErrInvalidType ==
    Sentence(<<"Invalid", "summary_type.", "Must", "be", "one", "of:",
               "['brief',", "'comprehensive',", "'bullet_points']">>)

ErrNoText == Sentence(<<"No", "text", "content", "in", "API", "response">>)

ErrDivision == Sentence(<<"division", "by", "zero">>)

\* raise RuntimeError(f"Summarization failed: {str(e)}")
ErrFailed(msg) == Sentence(<<"Summarization", "failed:">>) \o <<" ">> \o msg

NoValue == [none |-> TRUE]

Failure(msg, called) ==
    [ok |-> FALSE, value |-> NoValue, error |-> msg, provider_called |-> called]

Success(val) ==
    [ok |-> TRUE, value |-> val, error |-> <<>>, provider_called |-> TRUE]

Summarize_Inclusive(text, summary_type, response) ==
    IF WordCount(text) <= MinWords THEN Failure(ErrTooShort, FALSE)
    ELSE IF summary_type \notin ValidTypes THEN Failure(ErrInvalidType, FALSE)
    ELSE IF response.kind = "error" THEN Failure(ErrFailed(response.text), TRUE)
    ELSE IF response.kind = "none" THEN Failure(ErrFailed(ErrNoText), TRUE)
    ELSE LET summary_text == Strip(response.text)
         IN  IF WordCount(summary_text) = 0
             THEN Failure(ErrFailed(ErrDivision), TRUE)
             ELSE Success([raw_summary |-> summary_text,
                           summary |-> summary_text,
                           model |-> "gemini-2.5-flash",
                           summary_type |-> summary_type,
                           original_length |-> WordCount(text),
                           summary_length |-> WordCount(summary_text)])

Summarize_TypeFirst(text, summary_type, response) ==
    IF summary_type \notin ValidTypes THEN Failure(ErrInvalidType, FALSE)
    ELSE IF WordCount(text) < MinWords THEN Failure(ErrTooShort, FALSE)
    ELSE IF response.kind = "error" THEN Failure(ErrFailed(response.text), TRUE)
    ELSE IF response.kind = "none" THEN Failure(ErrFailed(ErrNoText), TRUE)
    ELSE LET summary_text == Strip(response.text)
         IN  IF WordCount(summary_text) = 0
             THEN Failure(ErrFailed(ErrDivision), TRUE)
             ELSE Success([raw_summary |-> summary_text,
                           summary |-> summary_text,
                           model |-> "gemini-2.5-flash",
                           summary_type |-> summary_type,
                           original_length |-> WordCount(text),
                           summary_length |-> WordCount(summary_text)])

\* summarize(text, summary_type, ...) when the provider answers `response`:
\* [kind |-> "text" | "none" | "error", text |-> the text or the error message].
\* The bullet_points list and the compression ratio of the result are left out.
Summarize(text, summary_type, response) ==
    IF WordCount(text) < MinWords THEN Failure(ErrTooShort, FALSE)
    ELSE IF summary_type \notin ValidTypes THEN Failure(ErrInvalidType, FALSE)
    ELSE IF response.kind = "error" THEN Failure(ErrFailed(response.text), TRUE)
    ELSE IF response.kind = "none" THEN Failure(ErrFailed(ErrNoText), TRUE)
    ELSE LET summary_text == Strip(response.text)
         IN  IF WordCount(summary_text) = 0
             THEN Failure(ErrFailed(ErrDivision), TRUE)
             ELSE Success([raw_summary |-> summary_text,
                           summary |-> summary_text,
                           model |-> "gemini-2.5-flash",
                           summary_type |-> summary_type,
                           original_length |-> WordCount(text),
                           summary_length |-> WordCount(summary_text)])

(***************************************************************************)
(* PodcastSummarizer.summarize_chunks                                      *)
(***************************************************************************)
\* the dictionary appended after a successful per-chunk call
OkChunkSummary(n, chunk, summary) ==
    [chunk_id |-> n,
     start_time |-> chunk.start_time,
     end_time |-> chunk.end_time,
     summary |-> summary.summary,
     original_length |-> WordCount(chunk.text)]

\* f"[Failed to summarize: {str(e)}]"
Placeholder(msg) == Sentence(<<"[Failed", "to", "summarize:">>) \o <<" ">> \o msg \o <<"]">>

FailedChunkSummary_NoLength(n, chunk, msg) ==
    [chunk_id |-> n,
     start_time |-> chunk.start_time,
     end_time |-> chunk.end_time,
     summary |-> Placeholder(msg),
     original_length |-> 0]

\* the dictionary appended by the except branch
FailedChunkSummary(n, chunk, msg) ==
    [chunk_id |-> n,
     start_time |-> chunk.start_time,
     end_time |-> chunk.end_time,
     summary |-> Placeholder(msg),
     original_length |-> WordCount(chunk.text)]

\* f"{t:.0f}" of a whole number of seconds
Fmt0f(t) == ToString(t)

\* f"Segment {cs['start_time']:.0f}-{cs['end_time']:.0f}s: {cs['summary']}"
SummaryLine(cs) ==
    <<"Segment", " ", Fmt0f(cs.start_time), "-", Fmt0f(cs.end_time), "s:", " ">>
        \o cs.summary

CombinedSummaries_SingleNewline(css) ==
    Join([k \in 1..Len(css) |-> SummaryLine(css[k])], <<"\n">>)

\* "\n\n".join([...])
CombinedSummaries(css) ==
    Join([k \in 1..Len(css) |-> SummaryLine(css[k])], <<"\n", "\n">>)

AggregateResult(css, final_summary) ==
    [chunk_summaries |-> css,
     final_summary |-> final_summary,
     total_chunks |-> Len(in_chunks),
     processing_info |-> [chunk_summary_type |-> chunk_summary_type,
                          final_summary_type |-> final_summary_type]]

Call(text, summary_type, max_length, outcome) ==
    [text |-> text, summary_type |-> summary_type, max_length |-> max_length,
     outcome |-> outcome]

\* Inputs ------------------------------------------------------------------
\* n words, single spaces between them
Words(w, n) == Sentence([k \in 1..n |-> w])

\* the words of a provider error message (status, reason and details): as
\* many as make MaxChunks failure lines reach MinWords words together, a line
\* having 7 words of its own
ErrorWords == ((MinWords + MaxChunks - 1) \div MaxChunks) - 7

\* what the provider may answer: a summary that fills a combined text on its
\* own, a short one, a blank one, no text at all, or an error
ProviderResponses ==
    {[kind |-> "text", text |-> Words("s", MinWords - 2)],
     [kind |-> "text", text |-> <<" ">> \o Words("s", 2) \o <<"\n">>],
     [kind |-> "text", text |-> <<" ">>],
     [kind |-> "none", text |-> <<>>],
     [kind |-> "error", text |-> Words("e", ErrorWords)]}

SummaryTypes == {"brief", "comprehensive", "bullet_points", "detailed"}

\* a chunk as _create_time_chunks emits it for the k-th window, with enough
\* words to be summarized or one word too few, its end widened or not
InputChunk(k, long, widened) ==
    Chunk((k - 1) * DefaultChunkDuration,
          k * DefaultChunkDuration + (IF widened THEN 20 ELSE 0),
          Words("w", IF long THEN MinWords ELSE MinWords - 1),
          IF long THEN MinWords ELSE MinWords - 1)

BuilderIdle ==
    /\ segments = <<>>
    /\ chunk_duration = DefaultChunkDuration
    /\ idx = 1
    /\ current_chunk = InitialChunk(DefaultChunkDuration)
    /\ chunks = <<>>
    /\ pc = "idle"
    /\ members = {}
    /\ chunk_members = <<>>

InitSummarize ==
    /\ BuilderIdle
    /\ DownloaderIdle
    /\ ProcessIdle
    /\ \E n \in 0..MaxChunks : \E f \in [1..n -> [long : BOOLEAN, widened : BOOLEAN]] :
          in_chunks = [k \in 1..n |-> InputChunk(k, f[k].long, f[k].widened)]
    /\ chunk_summary_type \in SummaryTypes
    /\ final_summary_type \in SummaryTypes
    /\ i = 0
    /\ chunk_summaries = <<>>
    /\ s_pc = "chunks"
    /\ result = NoResult
    /\ raised = <<>>
    /\ calls = <<>>

ChunkCall_NoCap(response) ==
    Call(in_chunks[i + 1].text, chunk_summary_type, NoMaxLength,
         Summarize(in_chunks[i + 1].text, chunk_summary_type, response))

\* the call of self.summarize for the chunk at position i
ChunkCall(response) ==
    Call(in_chunks[i + 1].text, chunk_summary_type, ChunkMaxLength,
         Summarize(in_chunks[i + 1].text, chunk_summary_type, response))

SummarizeChunkFail_Abort ==
    /\ s_pc = "chunks"
    /\ i < Len(in_chunks)
    /\ \E response \in ProviderResponses :
          LET call == ChunkCall(response)
          IN  /\ ~call.outcome.ok
              /\ raised' = call.outcome.error
              /\ s_pc' = "raised"
              /\ calls' = Append(calls, call)
    /\ UNCHANGED <<in_chunks, chunk_summary_type, final_summary_type, i,
                   chunk_summaries, result, builder_vars,
                   downloader_vars, process_vars>>

\* one iteration of the per-chunk loop, the call returns
SummarizeChunkOk ==
    /\ s_pc = "chunks"
    /\ i < Len(in_chunks)
    /\ \E response \in ProviderResponses :
          LET call == ChunkCall(response)
          IN  /\ call.outcome.ok
              /\ chunk_summaries' =
                    Append(chunk_summaries,
                           OkChunkSummary(i, in_chunks[i + 1], call.outcome.value))
              /\ calls' = Append(calls, call)
    /\ i' = i + 1
    /\ UNCHANGED <<in_chunks, chunk_summary_type, final_summary_type, s_pc,
                   result, raised, builder_vars,
                   downloader_vars, process_vars>>

\* one iteration of the per-chunk loop, the call raises: except Exception
SummarizeChunkFail ==
    /\ s_pc = "chunks"
    /\ i < Len(in_chunks)
    /\ \E response \in ProviderResponses :
          LET call == ChunkCall(response)
          IN  /\ ~call.outcome.ok
              /\ chunk_summaries' =
                    Append(chunk_summaries,
                           FailedChunkSummary(i, in_chunks[i + 1], call.outcome.error))
              /\ calls' = Append(calls, call)
    /\ i' = i + 1
    /\ UNCHANGED <<in_chunks, chunk_summary_type, final_summary_type, s_pc,
                   result, raised, builder_vars,
                   downloader_vars, process_vars>>

\* the call of self.summarize on the combined chunk summaries
FinalCall(response) ==
    Call(CombinedSummaries(chunk_summaries), final_summary_type, NoMaxLength,
         Summarize(CombinedSummaries(chunk_summaries), final_summary_type, response))

FinalOk_ReturnsWhenEmpty ==
    /\ s_pc = "chunks"
    /\ i = Len(in_chunks)
    /\ \/ /\ in_chunks = <<>>
          /\ result' = AggregateResult(chunk_summaries, NoValue)
          /\ calls' = calls
       \/ \E response \in ProviderResponses :
             LET call == FinalCall(response)
             IN  /\ call.outcome.ok
                 /\ result' = AggregateResult(chunk_summaries, call.outcome.value)
                 /\ calls' = Append(calls, call)
    /\ s_pc' = "returned"
    /\ UNCHANGED <<in_chunks, chunk_summary_type, final_summary_type, i,
                   chunk_summaries, raised, builder_vars,
                   downloader_vars, process_vars>>

\* after the loop: the final call returns, and so does summarize_chunks
FinalOk ==
    /\ s_pc = "chunks"
    /\ i = Len(in_chunks)
    /\ \E response \in ProviderResponses :
          LET call == FinalCall(response)
          IN  /\ call.outcome.ok
              /\ result' = AggregateResult(chunk_summaries, call.outcome.value)
              /\ calls' = Append(calls, call)
    /\ s_pc' = "returned"
    /\ UNCHANGED <<in_chunks, chunk_summary_type, final_summary_type, i,
                   chunk_summaries, raised, builder_vars,
                   downloader_vars, process_vars>>

FinalFail_Partial ==
    /\ s_pc = "chunks"
    /\ i = Len(in_chunks)
    /\ \E response \in ProviderResponses :
          LET call == FinalCall(response)
          IN  /\ ~call.outcome.ok
              /\ result' = AggregateResult(chunk_summaries, NoValue)
              /\ calls' = Append(calls, call)
    /\ s_pc' = "returned"
    /\ UNCHANGED <<in_chunks, chunk_summary_type, final_summary_type, i,
                   chunk_summaries, raised, builder_vars,
                   downloader_vars, process_vars>>

FinalFail_InsideLoop ==
    /\ s_pc = "chunks"
    /\ i <= Len(in_chunks)
    /\ \E response \in ProviderResponses :
          LET call == FinalCall(response)
          IN  /\ ~call.outcome.ok
              /\ raised' = call.outcome.error
              /\ calls' = Append(calls, call)
    /\ s_pc' = "raised"
    /\ UNCHANGED <<in_chunks, chunk_summary_type, final_summary_type, i,
                   chunk_summaries, result, builder_vars,
                   downloader_vars, process_vars>>

\* after the loop: the final call raises, nothing catches it
FinalFail ==
    /\ s_pc = "chunks"
    /\ i = Len(in_chunks)
    /\ \E response \in ProviderResponses :
          LET call == FinalCall(response)
          IN  /\ ~call.outcome.ok
              /\ raised' = call.outcome.error
              /\ calls' = Append(calls, call)
    /\ s_pc' = "raised"
    /\ UNCHANGED <<in_chunks, chunk_summary_type, final_summary_type, i,
                   chunk_summaries, result, builder_vars,
                   downloader_vars, process_vars>>

NextSummarize == SummarizeChunkOk \/ SummarizeChunkFail \/ FinalOk \/ FinalFail

SpecSummarize == InitSummarize /\ [][NextSummarize]_vars

(***************************************************************************)
(* Properties of summarize_chunks, checked under SpecSummarize.            *)
(***************************************************************************)
Left == s_pc \in {"returned", "raised"}

\* msg occurs in t as a contiguous piece
Embeds(t, msg) ==
    \E a \in 0..(Len(t) - Len(msg)) : SubSeq(t, a + 1, a + Len(msg)) = msg

\* the per-chunk call for chunk j (1-based) failed
ChunkFailed(j) == ~calls[j].outcome.ok

\* C2: a failing per-chunk call never aborts the loop: every chunk gets a
\* ChunkSummary, that of a failing chunk is a placeholder embedding the error
\* message, that of any other chunk is the collaborator's summary for it.
C2_PerChunkIsolation ==
    /\ Len(chunk_summaries) = i
    /\ Len(calls) >= i
    /\ \A j \in 1..Len(chunk_summaries) :
          /\ calls[j].text = in_chunks[j].text
          /\ IF ChunkFailed(j)
             THEN /\ Embeds(chunk_summaries[j].summary, calls[j].outcome.error)
                  /\ Embeds(chunk_summaries[j].summary, <<"[Failed">>)
             ELSE chunk_summaries[j].summary = calls[j].outcome.value.summary
    /\ Left => Len(chunk_summaries) = Len(in_chunks)
    /\ s_pc = "raised" => Len(calls) = Len(in_chunks) + 1

\* the first chunk failed, the second one was summarized, the batch returned
C2_Witness ==
    /\ s_pc = "returned"
    /\ Len(in_chunks) >= 2
    /\ ChunkFailed(1)
    /\ ~ChunkFailed(2)
    /\ Len(result.chunk_summaries) = Len(in_chunks)

FinalOutcome == calls[Len(in_chunks) + 1].outcome

\* C3: when the final aggregation call fails (as it does when the combined
\* text has fewer than 50 words), summarize_chunks raises that failure and
\* returns nothing, not even the chunk summaries.
C3_AggregationFailurePropagates ==
    Left =>
        /\ Len(calls) = Len(in_chunks) + 1
        /\ ~FinalOutcome.ok =>
              /\ s_pc = "raised"
              /\ raised = FinalOutcome.error
              /\ result = NoResult
        /\ WordCount(CombinedSummaries(chunk_summaries)) < MinWords =>
              /\ s_pc = "raised"
              /\ raised = ErrTooShort
              /\ result = NoResult

\* every chunk failed, the placeholders together are too short
C3_Witness ==
    /\ s_pc = "raised"
    /\ Len(in_chunks) >= 1
    /\ \A j \in 1..Len(in_chunks) : ChunkFailed(j)
    /\ raised = ErrTooShort
    /\ result = NoResult

\* C6: the returned chunk_summaries has one entry per input chunk, in input
\* order: entry i has chunk_id i, the chunk's start_time and end_time, and
\* the word count of the chunk's text, whether its call succeeded or failed.
C6_OneSummaryPerChunk ==
    s_pc = "returned" =>
        /\ Len(result.chunk_summaries) = Len(in_chunks)
        /\ \A j \in 1..Len(in_chunks) :
              /\ result.chunk_summaries[j].chunk_id = j - 1
              /\ result.chunk_summaries[j].start_time = in_chunks[j].start_time
              /\ result.chunk_summaries[j].end_time = in_chunks[j].end_time
              /\ result.chunk_summaries[j].original_length
                    = WordCount(in_chunks[j].text)

\* returned with a summarized chunk followed by a failed one
C6_Witness ==
    /\ s_pc = "returned"
    /\ Len(in_chunks) >= 2
    /\ ~ChunkFailed(1)
    /\ ChunkFailed(2)
    /\ in_chunks[2].end_time > in_chunks[2].start_time + DefaultChunkDuration

\* C12: the collaborator calls are made one after the other: each step makes
\* exactly one call, the call for chunk i only after the calls for the chunks
\* before it, in input order, and the aggregation call only after a call has
\* been made and has ended for every chunk.
C12_CallsAreSequential ==
    [][/\ Len(calls) = i
       /\ Len(calls') = Len(calls) + 1
       /\ SubSeq(calls', 1, Len(calls)) = calls
       /\ IF i < Len(in_chunks)
          THEN /\ calls'[i + 1].text = in_chunks[i + 1].text
               /\ Len(chunk_summaries') = i + 1
               /\ i' = i + 1
               /\ s_pc' = "chunks"
          ELSE /\ calls'[i + 1].text = CombinedSummaries(chunk_summaries)
               /\ Len(chunk_summaries) = Len(in_chunks)
               /\ s_pc' \in {"returned", "raised"}]_vars

\* the aggregation call was made after two per-chunk calls, one of them failed
C12_Witness ==
    /\ Left
    /\ Len(in_chunks) >= 2
    /\ Len(calls) = Len(in_chunks) + 1
    /\ ChunkFailed(1)

\* while the function has not left it can go on: in the loop a step for the
\* next chunk is enabled; after the loop the aggregation call has an outcome
\* whatever the provider answers, which FinalOk or FinalFail then takes
CanGoOn ==
    /\ s_pc = "chunks"
    /\ IF i < Len(in_chunks)
       THEN ENABLED (SummarizeChunkOk \/ SummarizeChunkFail)
       ELSE /\ i = Len(in_chunks)
            /\ \A response \in ProviderResponses :
                  FinalCall(response).outcome.ok \in BOOLEAN

\* C13: summarize_chunks always terminates (every call returning or
\* failing: it is never stuck before it has left, every step brings the loop
\* one chunk further or leaves, and no step is taken after it has left),
\* either returning an AggregateResult or raising the failure of the final
\* aggregation call; the failure of a per-chunk call never reaches the caller.
C13_TerminatesOneOfTwoWays ==
    /\ [](Left \/ CanGoOn)
    /\ [][/\ ~Left
          /\ \/ i' = i + 1 /\ i' <= Len(in_chunks) /\ ~Left'
             \/ i' = i /\ Left']_vars
    /\ [](Left =>
            /\ Len(calls) = Len(in_chunks) + 1
            /\ \/ /\ s_pc = "returned"
                  /\ FinalOutcome.ok
                  /\ result # NoResult
                  /\ result.final_summary = FinalOutcome.value
                  /\ raised = <<>>
               \/ /\ s_pc = "raised"
                  /\ ~FinalOutcome.ok
                  /\ raised = FinalOutcome.error
                  /\ result = NoResult)

\* a per-chunk call failed for one reason, the aggregation call for another
C13_Witness ==
    /\ s_pc = "raised"
    /\ Len(in_chunks) >= 2
    /\ ChunkFailed(1)
    /\ ~ChunkFailed(2)
    /\ raised # calls[1].outcome.error
    /\ FinalOutcome.provider_called

\* the line of the combined text for chunk j
ExpectedLine(j) ==
    <<"Segment", " ", ToString(in_chunks[j].start_time), "-",
      ToString(in_chunks[j].end_time), "s:", " ">> \o chunk_summaries[j].summary

\* the lines for the chunks from j on, a blank line before each but the first
RECURSIVE ExpectedLines(_)
ExpectedLines(j) ==
    IF j > Len(in_chunks) THEN <<>>
    ELSE (IF j > 1 THEN <<"\n", "\n">> ELSE <<>>)
             \o ExpectedLine(j) \o ExpectedLines(j + 1)

\* C14: the text of the aggregation call is one line
\* "Segment {start_time}-{end_time}s: {summary}" per ChunkSummary, failed
\* chunks included, in chunk order, separated by "\n\n", and nothing else.
C14_CombinedTextFormat ==
    Left =>
        /\ Len(chunk_summaries) = Len(in_chunks)
        /\ calls[Len(in_chunks) + 1].text = ExpectedLines(1)

\* two lines, the second one a failure placeholder of a widened chunk
C14_Witness ==
    /\ Left
    /\ Len(in_chunks) >= 2
    /\ ~ChunkFailed(1)
    /\ ChunkFailed(2)
    /\ in_chunks[2].end_time > in_chunks[2].start_time + DefaultChunkDuration
    /\ Embeds(calls[Len(in_chunks) + 1].text, <<"\n", "\n", "Segment">>)

\* C15: one call per chunk, with the chunk's text, chunk_summary_type and a
\* cap of 200 words, never repeated after a failure, then one call with
\* final_summary_type and no cap: len(chunks) + 1 calls in all.
C15_OneCallPerChunkPlusOne ==
    /\ Len(calls) = i + (IF Left THEN 1 ELSE 0)
    /\ \A j \in 1..i :
          /\ calls[j].text = in_chunks[j].text
          /\ calls[j].summary_type = chunk_summary_type
          /\ calls[j].max_length = 200
    /\ Left =>
          /\ i = Len(in_chunks)
          /\ Len(calls) = Len(in_chunks) + 1
          /\ calls[Len(calls)].summary_type = final_summary_type
          /\ calls[Len(calls)].max_length = 0

\* a per-chunk call failed, the run went on to the aggregation call
C15_Witness ==
    /\ Left
    /\ Len(in_chunks) >= 2
    /\ ChunkFailed(2)
    /\ chunk_summary_type # final_summary_type
    /\ Len(calls) = Len(in_chunks) + 1

\* C16: summarize fails with the input-too-short error exactly when its text
\* has fewer than 50 words, without calling the provider; a text of exactly
\* 50 words passes the check.
C16_TooShortBelowFiftyWords ==
    \A j \in 1..Len(calls) :
        LET n == WordCount(calls[j].text)
            out == calls[j].outcome
        IN  /\ n < 50 <=> (~out.ok /\ out.error = ErrTooShort)
            /\ n < 50 => ~out.provider_called
            /\ (n >= 50 /\ calls[j].summary_type \in ValidTypes)
                  => out.provider_called

\* a text of 49 words was refused without a provider call, a text of exactly
\* 50 words went through to the provider
C16_Witness ==
    /\ Left
    /\ \E j \in 1..Len(in_chunks) :
          /\ WordCount(calls[j].text) = 49
          /\ calls[j].outcome.error = ErrTooShort
          /\ ~calls[j].outcome.provider_called
    /\ \E j \in 1..Len(in_chunks) :
          /\ WordCount(calls[j].text) = 50
          /\ calls[j].outcome.ok
          /\ calls[j].outcome.provider_called

\* the per-chunk call for chunk j was refused before the provider was called
ChunkRefused(j) ==
    /\ ChunkFailed(j)
    /\ ~calls[j].outcome.provider_called
    /\ calls[j].outcome.error =
          (IF WordCount(in_chunks[j].text) < MinWords THEN ErrTooShort
           ELSE ErrInvalidType)
    /\ chunk_summaries[j].summary = Placeholder(calls[j].outcome.error)

\* C25: an unsupported chunk_summary_type makes every per-chunk call fail
\* and is absorbed into placeholders (the loop still reaches the aggregation
\* call); an unsupported final_summary_type makes the aggregation call fail
\* and summarize_chunks raise; in summarize the word-count check comes first,
\* so a text under 50 words with an unsupported type reports too-short.
C25_UnsupportedTypeTwoStages ==
    /\ chunk_summary_type \notin ValidTypes =>
          /\ \A j \in 1..i : ChunkRefused(j)
          /\ Len(chunk_summaries) = i
          /\ s_pc = "raised" => Len(calls) = Len(in_chunks) + 1
    /\ (Left /\ final_summary_type \notin ValidTypes) =>
          /\ s_pc = "raised"
          /\ result = NoResult
          /\ ~FinalOutcome.provider_called
          /\ raised = (IF WordCount(calls[Len(calls)].text) < MinWords
                       THEN ErrTooShort ELSE ErrInvalidType)
    /\ \A j \in 1..Len(calls) :
          calls[j].summary_type \notin ValidTypes =>
              /\ ~calls[j].outcome.ok
              /\ WordCount(calls[j].text) < MinWords
                    => calls[j].outcome.error = ErrTooShort
              /\ WordCount(calls[j].text) >= MinWords
                    => calls[j].outcome.error = ErrInvalidType

\* both types unsupported: the two per-chunk failures (one for the type, one
\* for a short text) were absorbed, the aggregation call was made and its
\* failure, too-short before the type is looked at, left the function
C25_Witness ==
    /\ s_pc = "raised"
    /\ chunk_summary_type \notin ValidTypes
    /\ final_summary_type \notin ValidTypes
    /\ Len(in_chunks) >= 2
    /\ calls[1].outcome.error = ErrInvalidType
    /\ calls[2].outcome.error = ErrTooShort
    /\ Len(calls) = Len(in_chunks) + 1
    /\ raised = ErrTooShort

\* C26: with an empty chunk list the only call is the aggregation call on
\* the empty text, it fails as too short and summarize_chunks raises; in
\* general the aggregation call is refused as too short exactly when the
\* combined text has fewer than 50 words, whether or not the chunks failed,
\* and otherwise goes on to the type check and the provider.
C26_AggregationDependsOnWordCount ==
    Left =>
        /\ in_chunks = <<>> =>
              /\ s_pc = "raised"
              /\ raised = ErrTooShort
              /\ result = NoResult
              /\ Len(calls) = 1
              /\ calls[1].text = <<>>
              /\ ~calls[1].outcome.provider_called
        /\ (WordCount(CombinedSummaries(chunk_summaries)) < MinWords)
              <=> (~FinalOutcome.ok /\ FinalOutcome.error = ErrTooShort)
        /\ (WordCount(CombinedSummaries(chunk_summaries)) >= MinWords
                /\ final_summary_type \in ValidTypes)
              => FinalOutcome.provider_called
        /\ s_pc = "returned" =>
              WordCount(CombinedSummaries(chunk_summaries)) >= MinWords

\* every chunk failed, the placeholders reach 50 words, a result is returned
C26_Witness ==
    /\ s_pc = "returned"
    /\ Len(in_chunks) >= 1
    /\ \A j \in 1..Len(in_chunks) : ChunkFailed(j)
    /\ result.final_summary = FinalOutcome.value

(***************************************************************************)
(* Further properties of _create_time_chunks, checked under Spec.          *)
(***************************************************************************)
SetMin(S) == CHOOSE x \in S : \A y \in S : x <= y

\* the texts of the segments folded into the k-th emitted chunk, in order
\* (the segments of a chunk are consecutive)
MemberTexts(k) ==
    [j \in 1..Cardinality(chunk_members[k]) |->
        segments[SetMin(chunk_members[k]) + j - 1].text]

\* the k-th emitted chunk is the initial running chunk (not opened by a segment)
IsInitialChunk(k) ==
    1 \in chunk_members[k] /\ segments[1].start < chunk_duration

\* the segment that opened the k-th emitted chunk
Opener(k) == segments[SetMin(chunk_members[k])]

\* C11: the text of every emitted chunk is the texts of its segments, in
\* order, joined by single spaces, with no leading or trailing separator.
C11_TextIsSpaceJoined ==
    \A k \in 1..Len(chunks) : chunks[k].text = Join(MemberTexts(k), <<" ">>)

\* C17: the start_time of every emitted chunk is a multiple of
\* chunk_duration: 0 for the initial chunk, floor(start / chunk_duration) *
\* chunk_duration for a chunk opened by a segment.
C17_StartTimeIsMultiple ==
    \A k \in 1..Len(chunks) :
        /\ chunks[k].start_time % chunk_duration = 0
        /\ IF IsInitialChunk(k)
           THEN chunks[k].start_time = 0
           ELSE chunks[k].start_time
                    = (Opener(k).start \div chunk_duration) * chunk_duration

\* an initial chunk and a chunk opened inside a later window were emitted
C17_Witness ==
    /\ Returned
    /\ Len(chunks) >= 2
    /\ IsInitialChunk(1)
    /\ chunk_duration > 1
    /\ Opener(2).start > chunks[2].start_time

\* the loop is about to fold the next segment into the running chunk
AboutToAppend ==
    /\ pc = "loop"
    /\ idx <= Len(segments)
    /\ segments[idx].start < current_chunk.end_time

NominalEnd(c) == c.start_time + chunk_duration

\* C18: every emitted chunk has end_time >= start_time + chunk_duration, with
\* equality when none of its segments ends after the nominal end; appending a
\* segment never decreases the running chunk's end_time.
C18_EndTimeOnlyWidens ==
    /\ [](\A k \in 1..Len(chunks) :
            /\ chunks[k].end_time >= NominalEnd(chunks[k])
            /\ (\A m \in chunk_members[k] : segments[m].end <= NominalEnd(chunks[k]))
                  => chunks[k].end_time = NominalEnd(chunks[k]))
    /\ [][AboutToAppend =>
            /\ current_chunk'.end_time >= current_chunk.end_time
            /\ current_chunk'.start_time = current_chunk.start_time]_vars

\* a chunk was widened by one segment and then took a segment ending earlier
C18_Witness ==
    /\ Returned
    /\ \E k \in 1..Len(chunks) :
          /\ chunks[k].end_time > NominalEnd(chunks[k])
          /\ \E m \in chunk_members[k] :
                /\ m + 1 \in chunk_members[k]
                /\ segments[m].end = chunks[k].end_time
                /\ segments[m + 1].end < chunks[k].end_time

FirstStartsLate == Len(segments) >= 1 /\ segments[1].start >= chunk_duration

\* the window that contains time t starts at w
WindowOf(t, w) ==
    w % chunk_duration = 0 /\ w <= t /\ t < w + chunk_duration

\* C19 as stated: when the first segment starts at or after chunk_duration,
\* no empty leading chunk is emitted and the first emitted chunk is the one
\* opened by that segment, starting at the segment's window.
C19_FirstChunkIsFirstSegments ==
    (Returned /\ FirstStartsLate) =>
        /\ \A k \in 1..Len(chunks) : chunks[k].start_time # 0
        /\ Len(chunks) >= 1 =>
              /\ 1 \in chunk_members[1]
              /\ WindowOf(segments[1].start, chunks[1].start_time)

\* C19 as amended: when the first segment starts at or after chunk_duration,
\* no chunk is emitted for the window [0, chunk_duration) or any window
\* before the segment's; if the chunk opened by that segment is emitted (its
\* text is not blank), it is the first emitted chunk and starts at the
\* segment's window.
C19_NoEmptyLeadingChunk ==
    (Returned /\ FirstStartsLate) =>
        /\ \A k \in 1..Len(chunks) :
              /\ chunks[k].start_time # 0
              /\ chunks[k].start_time + chunk_duration > segments[1].start
        /\ (\E k \in 1..Len(chunks) : 1 \in chunk_members[k]) =>
              /\ 1 \in chunk_members[1]
              /\ WindowOf(segments[1].start, chunks[1].start_time)

\* the first segment starts two windows late and its chunk is emitted first
C19_Witness ==
    /\ Returned
    /\ FirstStartsLate
    /\ segments[1].start >= 2 * chunk_duration
    /\ Len(chunks) >= 2
    /\ 1 \in chunk_members[1]

\* C20: silent windows produce no chunk: there are never more emitted chunks
\* than segments, and a chunk opened by a segment starts at the window that
\* contains the segment's start.
C20_GapsProduceNoChunk ==
    /\ Len(chunks) <= Len(segments)
    /\ Len(chunks) + (IF pc = "loop" THEN 1 ELSE 0) <= idx
    /\ \A k \in 1..Len(chunks) :
          ~IsInitialChunk(k) => WindowOf(Opener(k).start, chunks[k].start_time)

\* a chunk was opened at least one whole silent window after the previous one
C20_Witness ==
    /\ Returned
    /\ \E k \in 1..(Len(chunks) - 1) :
          chunks[k + 1].start_time >= chunks[k].end_time + chunk_duration

\* C21: for an empty segment sequence the returned chunk list is empty (the
\* initial running chunk is blank and dropped), whatever the positive
\* chunk_duration.
C21_NoSegmentsNoChunks ==
    segments = <<>> => (chunks = <<>> /\ (pc = "loop" => idx = 1))

\* returned for no segments with a chunk_duration other than 1
C21_Witness ==
    /\ Returned
    /\ segments = <<>>
    /\ chunk_duration > 1
    /\ chunks = <<>>

\* the loop is about to process the next segment
AtSegment == pc = "loop" /\ idx <= Len(segments)

\* C22: a segment opens a new chunk if and only if its start is at or after
\* the running chunk's current (possibly widened) end_time; otherwise it is
\* folded into the running chunk, also when its start lies at or after
\* start_time + chunk_duration.
C22_RolloverUsesWidenedEnd ==
    [][AtSegment =>
          IF segments[idx].start >= current_chunk.end_time
          THEN /\ members' = {idx}
               /\ current_chunk'.segment_count = 1
               /\ current_chunk'.text = segments[idx].text
          ELSE /\ members' = members \cup {idx}
               /\ current_chunk'.start_time = current_chunk.start_time
               /\ current_chunk'.segment_count = current_chunk.segment_count + 1
               /\ chunks' = chunks]_vars

\* an emitted chunk holds a segment that starts in a later nominal window
C22_Witness ==
    /\ Returned
    /\ \E k \in 1..Len(chunks) : \E m \in chunk_members[k] :
          /\ m > SetMin(chunk_members[k])
          /\ segments[m].start >= NominalEnd(chunks[k])
          /\ segments[m].start < chunks[k].end_time

\* C23: start_time is strictly increasing across the emitted chunks, by at
\* least chunk_duration from one chunk to the next (no two chunks share a
\* nominal start); the emitted [start_time, end_time] ranges may overlap.
C23_NominalStartsDistinct ==
    \A k \in 1..(Len(chunks) - 1) :
        chunks[k + 1].start_time >= chunks[k].start_time + chunk_duration

\* a chunk starts before the widened end_time of the chunk before it
C23_Witness ==
    /\ Returned
    /\ \E k \in 1..(Len(chunks) - 1) :
          /\ chunks[k + 1].start_time < chunks[k].end_time
          /\ chunks[k + 1].start_time >= chunks[k].start_time + chunk_duration

\* C24: an emitted chunk is never changed by a later segment (start_time,
\* end_time, text and segment_count stay as emitted, the output only grows at
\* its end), and its segment_count is the number of segments folded into it,
\* at least 1.
C24_EmittedChunksAreFrozen ==
    /\ [][/\ Len(chunks') >= Len(chunks)
          /\ SubSeq(chunks', 1, Len(chunks)) = chunks]_vars
    /\ [](\A k \in 1..Len(chunks) :
            /\ chunks[k].segment_count >= 1
            /\ chunks[k].segment_count = Cardinality(chunk_members[k]))

\* after a chunk of two segments was emitted, segments went to later chunks
C24_Witness ==
    /\ Returned
    /\ Len(chunks) >= 2
    /\ chunks[1].segment_count >= 2
    /\ current_chunk.segment_count >= 1
    /\ current_chunk = chunks[Len(chunks)]

(***************************************************************************)
(* Properties of _create_time_chunks, checked under SpecAnyDuration.       *)
(***************************************************************************)
\* C27: chunk_duration is not validated: with chunk_duration = 0 and at
\* least one segment the builder fails with a division by zero at the first
\* segment, returning nothing; a negative chunk_duration raises no error,
\* every segment opens a chunk of its own, and every returned chunk has its
\* end_time below its start_time.
C27_NoDurationValidation ==
    /\ (chunk_duration = 0 /\ Len(segments) >= 1) =>
          /\ pc \in {"loop", "ZeroDivisionError"}
          /\ idx = 1
          /\ chunks = <<>>
    /\ (chunk_duration = 0 /\ Len(segments) = 0 /\ pc # "loop") => pc = "done"
    /\ pc = "ZeroDivisionError" => chunk_duration = 0
    /\ chunk_duration < 0 =>
          /\ pc \in {"loop", "done"}
          /\ current_chunk.end_time < current_chunk.start_time
          /\ current_chunk.segment_count <= 1
          /\ \A k \in 1..Len(chunks) :
                /\ chunks[k].end_time < chunks[k].start_time
                /\ chunks[k].end_time = chunks[k].start_time + chunk_duration
          /\ pc = "done" =>
                Len(chunks) = Cardinality({m \in 1..Len(segments) :
                                              Strip(segments[m].text) # <<>>})

\* returned two chunks for a negative chunk_duration
C27_Witness ==
    /\ pc = "done"
    /\ chunk_duration < 0
    /\ Len(chunks) >= 2
    /\ chunks[2].start_time > 0
    /\ chunks[2].end_time < chunks[2].start_time

(***************************************************************************)
(* AudioDownloader.download_by_search and download_from_url                *)
(* (audio_downloader.py).  A title or a query is a sequence of words, a    *)
(* punctuation mark being a word of its own.                               *)
(***************************************************************************)
Punctuation == {":", "!", "?"}

\* w.lower() in ['the', 'and', 'vs', 'with']
StopWords == {"the", "and", "vs", "with"}

\* the words of the model's titles with len(w) <= 2
ShortWords == {"is", "of"}

\* re.sub(r'[^\w\s-]', ' ', title).split(): punctuation becomes a blank
Cleaned(t) == SelectSeq(t, LAMBDA w : w \notin Punctuation)

\* [w for w in ... if len(w) > 2 and w.lower() not in [...]]
KeyWords(t) ==
    SelectSeq(Cleaned(t), LAMBDA w : w \notin ShortWords /\ w \notin StopWords)

\* _apply_term_substitutions: GPT-OSS, GPT OSS, ChatGPT and GPT become OpenAI
RECURSIVE ApplyTermSubstitutions(_)
ApplyTermSubstitutions(t) ==
    IF t = <<>> THEN <<>>
    ELSE IF Len(t) >= 2 /\ t[1] = "GPT" /\ t[2] = "OSS"
         THEN <<"OpenAI">> \o ApplyTermSubstitutions(SubSeq(t, 3, Len(t)))
    ELSE IF Head(t) \in {"GPT-OSS", "ChatGPT", "GPT"}
         THEN <<"OpenAI">> \o ApplyTermSubstitutions(Tail(t))
    ELSE <<Head(t)>> \o ApplyTermSubstitutions(Tail(t))

\* the show name of the model's episodes; it has no special character, so
\* show_cleaned has the same words
Show == <<"daily", "show">>

FirstWords(ws, n) == SubSeq(ws, 1, n)

\* _create_fallback_queries: strategies 1 to 4, in this order
CreateFallbackQueries(t, show) ==
    LET title_words == KeyWords(t)
        title_sub_words == KeyWords(ApplyTermSubstitutions(t))
    IN  (IF Len(title_sub_words) > 3
         THEN <<show \o FirstWords(title_sub_words, 3)>> ELSE <<>>)
        \o (IF Len(title_words) > 3
            THEN <<show \o FirstWords(title_words, 3)>> ELSE <<>>)
        \o (IF Len(title_sub_words) >= 2
            THEN <<show \o FirstWords(title_sub_words, 2)>> ELSE <<>>)
        \o (IF Len(title_words) >= 2
            THEN <<show \o FirstWords(title_words, 2)>> ELSE <<>>)

\* original_query = f"{artist_or_show} {title}"
OriginalQuery(t, show) == show \o t

\* all_queries = [original_query] + fallback_queries
AllQueries(t, show) == <<OriginalQuery(t, show)>> \o CreateFallbackQueries(t, show)

\* Inputs ------------------------------------------------------------------
\* episode titles that give no, two, three and four fallback queries
Titles ==
    {<<"news">>,
     <<"the", "GPT", "OSS", "launch">>,
     <<"GPT", "OSS", ":", "big", "launch">>,
     <<"why", "GPT", "OSS", "is", "big", "news", "today", "?">>}

\* what ydl.extract_info(search_url, download=False) may do for a search:
\* raise, return None, return a result without entries, with an empty entry
\* list, or with one entry
SearchOutcomes == {"raises", "none", "no_entries_key", "empty", "entry"}

\* if info and 'entries' in info and len(info['entries']) > 0
HasEntry(outcome) == outcome = "entry"

ErrNoVideos == "Download failed: No videos found for any search query"
ErrCancelled == "Download failed: User cancelled download - video not confirmed"
ErrAborted == "Download failed: "
ErrNoFiles == "Download failed: No audio files found after download"
ErrExtract == "Download failed: extract_info error"
ErrDownload == "Download failed: download error"

InitDownload ==
    /\ BuilderIdle
    /\ SummarizerIdle
    /\ ProcessIdle
    /\ d_method \in {"search", "url"}
    /\ auto_confirm \in BOOLEAN
    /\ IF d_method = "search"
       THEN /\ title \in Titles
            /\ all_queries = AllQueries(title, Show)
            /\ d_pc = "search"
       ELSE /\ title = <<>>
            /\ all_queries = <<>>
            /\ d_pc = "info"
    /\ qi = 0
    /\ video_info = NoVideo
    /\ d_error = ""
    /\ tried = <<>>
    /\ prompted = <<>>
    /\ download_calls = <<>>

Tried(query, outcome) == [query |-> query, outcome |-> outcome]

\* the entry of a search result
Entry(query) == [webpage_url |-> <<"watch">> \o query]

\* one iteration of the query loop: the search returns an entry, break
SearchHit ==
    /\ d_pc = "search"
    /\ qi < Len(all_queries)
    /\ tried' = Append(tried, Tried(all_queries[qi + 1], "entry"))
    /\ video_info' = Entry(all_queries[qi + 1])
    /\ d_pc' = "confirm"
    /\ UNCHANGED <<d_method, title, auto_confirm, all_queries, qi, d_error,
                   prompted, download_calls, builder_vars, summarizer_vars,
                   process_vars>>

\* one iteration of the query loop: no results for the query, next query
SearchMiss ==
    /\ d_pc = "search"
    /\ qi < Len(all_queries)
    /\ \E outcome \in SearchOutcomes \ {"raises"} :
          /\ ~HasEntry(outcome)
          /\ tried' = Append(tried, Tried(all_queries[qi + 1], outcome))
    /\ qi' = qi + 1
    /\ UNCHANGED <<d_method, title, auto_confirm, all_queries, video_info,
                   d_pc, d_error, prompted, download_calls, builder_vars,
                   summarizer_vars, process_vars>>

SearchRaises_Aborts ==
    /\ d_pc = "search"
    /\ qi < Len(all_queries)
    /\ tried' = Append(tried, Tried(all_queries[qi + 1], "raises"))
    /\ d_pc' = "raised"
    /\ d_error' = ErrExtract
    /\ UNCHANGED <<d_method, title, auto_confirm, all_queries, qi, video_info,
                   prompted, download_calls, builder_vars, summarizer_vars,
                   process_vars>>

\* one iteration of the query loop: the search raises, except ... continue
SearchRaises ==
    /\ d_pc = "search"
    /\ qi < Len(all_queries)
    /\ tried' = Append(tried, Tried(all_queries[qi + 1], "raises"))
    /\ qi' = qi + 1
    /\ UNCHANGED <<d_method, title, auto_confirm, all_queries, video_info,
                   d_pc, d_error, prompted, download_calls, builder_vars,
                   summarizer_vars, process_vars>>

\* after the loop: if not video_info: raise RuntimeError(...)
NoVideoFound ==
    /\ d_pc = "search"
    /\ qi = Len(all_queries)
    /\ d_pc' = "raised"
    /\ d_error' = ErrNoVideos
    /\ UNCHANGED <<d_method, title, auto_confirm, all_queries, qi, video_info,
                   tried, prompted, download_calls, builder_vars,
                   summarizer_vars, process_vars>>

\* download_from_url: ydl.extract_info(url, download=False) returns
InfoOk ==
    /\ d_pc = "info"
    /\ video_info' = Entry(<<"url">>)
    /\ d_pc' = "confirm"
    /\ UNCHANGED <<d_method, title, auto_confirm, all_queries, qi, d_error,
                   tried, prompted, download_calls, builder_vars,
                   summarizer_vars, process_vars>>

\* download_from_url: ydl.extract_info raises
InfoFails ==
    /\ d_pc = "info"
    /\ d_pc' = "raised"
    /\ d_error' = ErrExtract
    /\ UNCHANGED <<d_method, title, auto_confirm, all_queries, qi, video_info,
                   tried, prompted, download_calls, builder_vars,
                   summarizer_vars, process_vars>>

\* if not self.auto_confirm ... else: click.echo("Auto-confirming ...")
AutoConfirm ==
    /\ d_pc = "confirm"
    /\ auto_confirm
    /\ d_pc' = "download"
    /\ UNCHANGED <<d_method, title, auto_confirm, all_queries, qi, video_info,
                   d_error, tried, prompted, download_calls, builder_vars,
                   summarizer_vars, process_vars>>

\* click.confirm(...) returns True
UserConfirms ==
    /\ d_pc = "confirm"
    /\ ~auto_confirm
    /\ prompted' = Append(prompted, "yes")
    /\ d_pc' = "download"
    /\ UNCHANGED <<d_method, title, auto_confirm, all_queries, qi, video_info,
                   d_error, tried, download_calls, builder_vars,
                   summarizer_vars, process_vars>>

UserDeclines_Downloads ==
    /\ d_pc = "confirm"
    /\ ~auto_confirm
    /\ prompted' = Append(prompted, "no")
    /\ d_pc' = "download"
    /\ UNCHANGED <<d_method, title, auto_confirm, all_queries, qi, video_info,
                   d_error, tried, download_calls, builder_vars,
                   summarizer_vars, process_vars>>

\* click.confirm(...) returns False: raise RuntimeError("User cancelled ...")
UserDeclines ==
    /\ d_pc = "confirm"
    /\ ~auto_confirm
    /\ prompted' = Append(prompted, "no")
    /\ d_pc' = "raised"
    /\ d_error' = ErrCancelled
    /\ UNCHANGED <<d_method, title, auto_confirm, all_queries, qi, video_info,
                   tried, download_calls, builder_vars, summarizer_vars,
                   process_vars>>

\* click.confirm(...) raises click.Abort (no input), a RuntimeError with an
\* empty message
PromptAborted ==
    /\ d_pc = "confirm"
    /\ ~auto_confirm
    /\ prompted' = Append(prompted, "abort")
    /\ d_pc' = "raised"
    /\ d_error' = ErrAborted
    /\ UNCHANGED <<d_method, title, auto_confirm, all_queries, qi, video_info,
                   tried, download_calls, builder_vars, summarizer_vars,
                   process_vars>>

\* download([video_url]) returns and an audio file is found and returned
DownloadFound ==
    /\ d_pc = "download"
    /\ download_calls' = Append(download_calls, video_info.webpage_url)
    /\ d_pc' = "returned"
    /\ UNCHANGED <<d_method, title, auto_confirm, all_queries, qi, video_info,
                   d_error, tried, prompted, builder_vars, summarizer_vars,
                   process_vars>>

\* download([video_url]) returns but the output directory has no audio file
DownloadNoFile ==
    /\ d_pc = "download"
    /\ download_calls' = Append(download_calls, video_info.webpage_url)
    /\ d_pc' = "raised"
    /\ d_error' = ErrNoFiles
    /\ UNCHANGED <<d_method, title, auto_confirm, all_queries, qi, video_info,
                   tried, prompted, builder_vars, summarizer_vars,
                   process_vars>>

\* download([video_url]) raises
DownloadRaises ==
    /\ d_pc = "download"
    /\ download_calls' = Append(download_calls, video_info.webpage_url)
    /\ d_pc' = "raised"
    /\ d_error' = ErrDownload
    /\ UNCHANGED <<d_method, title, auto_confirm, all_queries, qi, video_info,
                   tried, prompted, builder_vars, summarizer_vars,
                   process_vars>>

NextDownload ==
    \/ SearchHit \/ SearchMiss \/ SearchRaises \/ NoVideoFound
    \/ InfoOk \/ InfoFails
    \/ AutoConfirm \/ UserConfirms \/ UserDeclines \/ PromptAborted
    \/ DownloadFound \/ DownloadNoFile \/ DownloadRaises

SpecDownload == InitDownload /\ [][NextDownload]_vars

(***************************************************************************)
(* Properties of the downloader, checked under SpecDownload.               *)
(***************************************************************************)
\* a search has returned an entry
Hit == \E k \in 1..Len(tried) : tried[k].outcome = "entry"

\* C28: download_by_search tries the original "show title" query first and
\* then the fallback queries in list order; a query that raises or has no
\* entries is followed by the next query; the first query with an entry is
\* the last one tried; when every query has failed the method raises and
\* makes no download call.
C28_QueriesTriedInOrder ==
    d_method = "search" =>
        /\ all_queries[1] = Show \o title
        /\ SubSeq(all_queries, 2, Len(all_queries)) = CreateFallbackQueries(title, Show)
        /\ Len(tried) <= Len(all_queries)
        /\ \A k \in 1..Len(tried) : tried[k].query = all_queries[k]
        /\ \A k \in 1..(Len(tried) - 1) : tried[k].outcome # "entry"
        /\ d_pc = "search" =>
              /\ ~Hit
              /\ Len(tried) = qi
              /\ download_calls = <<>>
        /\ (d_pc # "search" /\ ~Hit) =>
              /\ Len(tried) = Len(all_queries)
              /\ d_pc = "raised"
              /\ d_error = ErrNoVideos
              /\ prompted = <<>>
              /\ download_calls = <<>>
        /\ Hit =>
              /\ d_pc # "search"
              /\ video_info = Entry(tried[Len(tried)].query)
              /\ \A k \in 1..Len(download_calls) :
                    download_calls[k] = video_info.webpage_url

\* the original query raised, the first fallback had no entries, the second
\* fallback was downloaded and the last two fallbacks were never tried
C28_Witness ==
    /\ d_method = "search"
    /\ d_pc = "returned"
    /\ Len(all_queries) = 5
    /\ Len(tried) = 3
    /\ tried[1].outcome = "raises"
    /\ tried[2].outcome = "empty"
    /\ tried[3].outcome = "entry"
    /\ Len(download_calls) = 1

\* C29: in both methods a download call is made only if auto_confirm is set
\* or the user confirmed the found video; when auto_confirm is unset and the
\* user declines, the method raises and makes no download call.
C29_NoDownloadWithoutConfirmation ==
    /\ (download_calls # <<>> \/ d_pc = "download") =>
          (auto_confirm \/ prompted = <<"yes">>)
    /\ Len(download_calls) <= 1
    /\ auto_confirm => prompted = <<>>
    /\ (~auto_confirm /\ prompted # <<>> /\ prompted[1] # "yes") =>
          /\ d_pc = "raised"
          /\ d_error = (IF prompted[1] = "no" THEN ErrCancelled ELSE ErrAborted)
          /\ download_calls = <<>>

\* download_from_url: the user declined and no download call was made
C29_Witness ==
    /\ d_method = "url"
    /\ ~auto_confirm
    /\ video_info # NoVideo
    /\ prompted = <<"no">>
    /\ d_pc = "raised"
    /\ d_error = ErrCancelled
    /\ download_calls = <<>>

(***************************************************************************)
(* The process command (cli.py).  Every step is a call that returns or     *)
(* raises.  The download step runs download_by_search as modelled above;   *)
(* what transcription and summarization do inside is the subject of Spec   *)
(* and SpecSummarize.                                                      *)
(***************************************************************************)
\* AudioDownloader(..., auto_confirm=yes, ...), no method called yet
DownloaderReady ==
    /\ d_method = "idle"
    /\ title \in Titles
    /\ auto_confirm \in BOOLEAN
    /\ all_queries = <<>>
    /\ qi = 0
    /\ video_info = NoVideo
    /\ d_pc = "idle"
    /\ d_error = ""
    /\ tried = <<>>
    /\ prompted = <<>>
    /\ download_calls = <<>>

InitProcess ==
    /\ BuilderIdle
    /\ SummarizerIdle
    /\ DownloaderReady
    /\ api_key_set \in BOOLEAN
    /\ keep_audio \in BOOLEAN
    /\ keep_transcript \in BOOLEAN
    /\ p_pc = "start"
    /\ exit_status = NoStatus
    /\ audio_file = "absent"
    /\ transcript_file = "absent"
    /\ summary_file = "absent"
    /\ steps = <<>>

Step(name, ok) == [step |-> name, ok |-> ok]

\* the step returned: on to the next one
Returns(name, next) ==
    /\ steps' = Append(steps, Step(name, TRUE))
    /\ p_pc' = next
    /\ exit_status' = exit_status

\* the step raised: except Exception as e: ... ctx.exit(1)
Raises(name) ==
    /\ steps' = Append(steps, Step(name, FALSE))
    /\ p_pc' = "exit"
    /\ exit_status' = 1

\* if not os.getenv("GEMINI_API_KEY"): ... ctx.exit(1)
ApiKeyMissing ==
    /\ p_pc = "start"
    /\ ~api_key_set
    /\ p_pc' = "exit"
    /\ exit_status' = 1
    /\ UNCHANGED <<api_key_set, keep_audio, keep_transcript, audio_file,
                   transcript_file, summary_file, steps, builder_vars,
                   summarizer_vars, downloader_vars>>

\* extractor.get_episode_metadata(spotify_url)
ExtractMetadata ==
    /\ p_pc = "start"
    /\ api_key_set
    /\ \/ Returns("metadata", "download")
       \/ Raises("metadata")
    /\ UNCHANGED <<api_key_set, keep_audio, keep_transcript, audio_file,
                   transcript_file, summary_file, builder_vars,
                   summarizer_vars, downloader_vars>>

\* downloader.download_by_search(title, show_name) is entered
CallDownload ==
    /\ p_pc = "download"
    /\ d_pc = "idle"
    /\ d_method' = "search"
    /\ all_queries' = AllQueries(title, Show)
    /\ d_pc' = "search"
    /\ UNCHANGED <<title, auto_confirm, qi, video_info, d_error, tried,
                   prompted, download_calls, builder_vars, summarizer_vars,
                   process_vars>>

\* downloader.download_by_search(title, show_name) returns the audio file or
\* raises
DownloadAudio ==
    /\ p_pc = "download"
    /\ \/ /\ d_pc = "returned"
          /\ Returns("download", "transcribe")
          /\ audio_file' = "present"
       \/ /\ d_pc = "raised"
          /\ Raises("download")
          /\ audio_file' = audio_file
    /\ UNCHANGED <<api_key_set, keep_audio, keep_transcript, transcript_file,
                   summary_file, builder_vars, summarizer_vars,
                   downloader_vars>>

\* transcriber.transcribe_with_summary_chunks(audio_file, chunk_duration, language)
Transcribe ==
    /\ p_pc = "transcribe"
    /\ \/ Returns("transcribe", "save_transcript")
       \/ Raises("transcribe")
    /\ UNCHANGED <<api_key_set, keep_audio, keep_transcript, audio_file,
                   transcript_file, summary_file, builder_vars,
                   summarizer_vars, downloader_vars>>

\* transcripts_dir.mkdir(...); transcriber.save_transcription(result, file):
\* a failure leaves no file or a partly written one
SaveTranscript ==
    /\ p_pc = "save_transcript"
    /\ \/ Returns("save_transcript", "summarize") /\ transcript_file' = "written"
       \/ Raises("save_transcript") /\ transcript_file' \in {"absent", "partial"}
    /\ UNCHANGED <<api_key_set, keep_audio, keep_transcript, audio_file,
                   summary_file, builder_vars, summarizer_vars,
                   downloader_vars>>

\* summarizer.summarize_chunks(chunks, "brief", summary_type)
SummarizeTranscript ==
    /\ p_pc = "summarize"
    /\ \/ Returns("summarize", "write_summary")
       \/ Raises("summarize")
    /\ UNCHANGED <<api_key_set, keep_audio, keep_transcript, audio_file,
                   transcript_file, summary_file, builder_vars,
                   summarizer_vars, downloader_vars>>

\* summaries_dir.mkdir(...); open(summary_md, 'w') ... f.write(combined_summary)
WriteSummary ==
    /\ p_pc = "write_summary"
    /\ \/ Returns("write_summary", "cleanup") /\ summary_file' = "written"
       \/ Raises("write_summary") /\ summary_file' \in {"absent", "partial"}
    /\ UNCHANGED <<api_key_set, keep_audio, keep_transcript, audio_file,
                   transcript_file, builder_vars, summarizer_vars,
                   downloader_vars>>

\* if not keep_audio: skipped; the results are shown and the command ends
KeepAudio ==
    /\ p_pc = "cleanup"
    /\ keep_audio
    /\ p_pc' = "exit"
    /\ exit_status' = 0
    /\ UNCHANGED <<api_key_set, keep_audio, keep_transcript, audio_file,
                   transcript_file, summary_file, steps, builder_vars,
                   summarizer_vars, downloader_vars>>

CleanupAudio_FailureExits ==
    /\ p_pc = "cleanup"
    /\ ~keep_audio
    /\ \/ /\ audio_file' = "deleted"
          /\ steps' = Append(steps, Step("cleanup", TRUE))
          /\ exit_status' = 0
       \/ /\ audio_file' = audio_file
          /\ steps' = Append(steps, Step("cleanup", FALSE))
          /\ exit_status' = 1
    /\ p_pc' = "exit"
    /\ UNCHANGED <<api_key_set, keep_audio, keep_transcript, transcript_file,
                   summary_file, builder_vars, summarizer_vars,
                   downloader_vars>>

\* downloader.cleanup(audio_file): the file is deleted, or unlink raises and
\* cleanup only prints a warning; the results are shown and the command ends
CleanupAudio ==
    /\ p_pc = "cleanup"
    /\ ~keep_audio
    /\ \/ /\ audio_file' = "deleted"
          /\ steps' = Append(steps, Step("cleanup", TRUE))
       \/ /\ audio_file' = audio_file
          /\ steps' = Append(steps, Step("cleanup", FALSE))
    /\ p_pc' = "exit"
    /\ exit_status' = 0
    /\ UNCHANGED <<api_key_set, keep_audio, keep_transcript, transcript_file,
                   summary_file, builder_vars, summarizer_vars,
                   downloader_vars>>

NextProcess ==
    \/ ApiKeyMissing \/ ExtractMetadata \/ CallDownload
    \/ SearchHit \/ SearchMiss \/ SearchRaises \/ NoVideoFound
    \/ AutoConfirm \/ UserConfirms \/ UserDeclines \/ PromptAborted
    \/ DownloadFound \/ DownloadNoFile \/ DownloadRaises
    \/ DownloadAudio \/ Transcribe
    \/ SaveTranscript \/ SummarizeTranscript \/ WriteSummary
    \/ KeepAudio \/ CleanupAudio

SpecProcess == InitProcess /\ [][NextProcess]_vars

(***************************************************************************)
(* Properties of the process command, checked under SpecProcess.           *)
(***************************************************************************)
StepOrder ==
    <<"metadata", "download", "transcribe", "save_transcript", "summarize",
      "write_summary", "cleanup">>

Ended == p_pc = "exit"

\* the steps run so far are the first steps of StepOrder, all but the last
\* one have succeeded, and the command has ended if the last one failed
StepsInOrder ==
    /\ Len(steps) <= Len(StepOrder)
    /\ \A k \in 1..Len(steps) : steps[k].step = StepOrder[k]
    /\ \A k \in 1..(Len(steps) - 1) : steps[k].ok
    /\ \A k \in 1..Len(steps) : ~steps[k].ok => Ended

SummarizationFailed ==
    /\ Len(steps) = 5
    /\ ~steps[5].ok

TranscriptAndAudio ==
    /\ SummarizationFailed => (transcript_file = "written" /\ summary_file = "absent")
    /\ audio_file = "deleted" =>
          /\ ~keep_audio
          /\ Len(steps) = Len(StepOrder)
          /\ \A k \in 1..Len(steps) : steps[k].ok
          /\ transcript_file = "written"
          /\ summary_file = "written"

\* C30 as stated: the steps run in the order metadata, download,
\* transcription, transcript file, summarization, summary file, cleanup; a
\* failure in any step skips the later steps and exits with status 1; the
\* transcript is written when summarization fails; the audio is deleted only
\* when every earlier step succeeded and keep_audio is unset.
C30_AnyFailureExitsOne ==
    /\ StepsInOrder
    /\ \A k \in 1..Len(steps) : ~steps[k].ok => exit_status = 1
    /\ TranscriptAndAudio

\* C30 as amended: as stated for the six steps before cleanup; cleanup runs
\* only when keep_audio is unset, and a failure to delete the audio is only
\* warned about: the command still ends with status 0, the audio file left
\* in place.  Status 0 means that every step before cleanup succeeded.
C30_FailureBeforeCleanupExitsOne ==
    /\ StepsInOrder
    /\ \A k \in 1..Len(steps) :
          ~steps[k].ok =>
              exit_status = (IF steps[k].step = "cleanup" THEN 0 ELSE 1)
    /\ TranscriptAndAudio
    /\ keep_audio => (Len(steps) <= 6 /\ audio_file # "deleted")
    /\ exit_status = 0 =>
          /\ Ended
          /\ Len(steps) >= 6
          /\ \A k \in 1..6 : steps[k].ok
          /\ summary_file = "written"
    /\ (Ended /\ exit_status = 1 /\ steps # <<>>) => ~steps[Len(steps)].ok
    /\ Ended <=> exit_status # NoStatus

\* summarization failed after the fallback search and the download: the
\* transcript is written, the audio is still there, the status is 1
C30_Witness ==
    /\ Ended
    /\ exit_status = 1
    /\ SummarizationFailed
    /\ transcript_file = "written"
    /\ audio_file = "present"
    /\ ~keep_audio
    /\ Len(tried) >= 2

====
